---- MODULE Spec2Model ----
(***************************************************************************)
(* Model of src/hello_backend/src/lib.rs: a Todo store kept in a           *)
(* StableBTreeMap<u64, Todo> (thread-local TODOS), with the four canister  *)
(* entry points create_todo, read_todos, update_todo, delete_todo and the  *)
(* Paginate::get_page helper.                                              *)
(*                                                                         *)
(* Values are kept in the map as their encoded bytes (Storable::to_bytes)  *)
(* and decoded on every read (Storable::from_bytes), as the stable map     *)
(* does.  usize values are little-endian byte words of UsizeBytes bytes,   *)
(* so that (page_num - 1) * page_size is computed at its real width.       *)
(***************************************************************************)
EXTENDS Integers, Sequences, FiniteSets, TLC

VARIABLES
    TODOS,            \* the map: key (u64) -> encoded Todo
    pre,              \* TODOS as it was when the last call started
    call,             \* the last call and its arguments
    ret,              \* what the last call gave back to its caller
    created,          \* history: number of create_todo calls that returned,
                      \* counted as long as delete_todo was never called
    deleted,          \* history: has delete_todo ever been called
    assigned,         \* history: the ids create_todo returned before the last
                      \* call
    overflow_checks   \* build mode: are arithmetic overflow checks compiled in

vars == <<TODOS, pre, call, ret, created, deleted, assigned, overflow_checks>>

-----------------------------------------------------------------------------
(* Bounds of the model *)

MaxTodos == 2          \* Spec: create_todo is called while the map holds fewer
MaxKeys == 3           \* SpecPage: the maps read hold keys in 1..MaxKeys

(* Program constants *)

MAX_VALUE_SIZE == 100  \* const MAX_VALUE_SIZE: u32 = 100
UsizeBytes == 4        \* usize of the canister target (wasm32): 32 bits
U64Bytes == 8          \* id: u64

-----------------------------------------------------------------------------
(* Small helpers *)

Min(a, b) == IF a <= b THEN a ELSE b

RECURSIVE LEBytes(_, _)
\* n as k little-endian bytes
LEBytes(n, k) == IF k = 0 THEN <<>> ELSE <<n % 256>> \o LEBytes(n \div 256, k - 1)

RECURSIVE FromLE(_)
FromLE(bytes) == IF bytes = <<>> THEN 0 ELSE Head(bytes) + 256 * FromLE(Tail(bytes))

RECURSIVE Leb128(_)
\* unsigned LEB128, as Candid writes a text length
Leb128(n) == IF n < 128 THEN <<n>> ELSE <<128 + (n % 128)>> \o Leb128(n \div 128)

Str(n, b) == [i \in 1..n |-> b]

-----------------------------------------------------------------------------
(* Todo and its Storable encoding (Candid) *)

\* struct Todo { id: u64, title: String, completed: bool }; a title is its
\* UTF-8 bytes.
Todo(id, title, completed) == [id |-> id, title |-> title, completed |-> completed]

\* What Encode! writes before the value of a Todo: the magic "DIDL", a type
\* table of one record type with three fields, each (LEB128 of the field-name
\* hash, type code), in ascending hash order: id (23515): nat64, title
\* (272307608): text, completed (1329111435): bool; then one argument of
\* type 0.
CandidHeader ==
    <<68, 73, 68, 76,  1,  108, 3,
      219, 183, 1, 120,
      152, 171, 236, 129, 1, 113,
      139, 195, 226, 249, 4, 126,
      1, 0>>

\* Faulty variant of to_bytes: the id is written as a 16-bit number, the
\* upper six bytes left zero
to_bytes_narrow_id(todo) ==
    CandidHeader
        \o LEBytes(todo.id % 65536, U64Bytes)
        \o Leb128(Len(todo.title)) \o todo.title
        \o <<IF todo.completed THEN 1 ELSE 0>>

\* Todo::to_bytes: Encode!(self).unwrap(). The field values follow the header
\* in the type's field order: id as 8 little-endian bytes, title as LEB128
\* length and bytes, completed as one byte.
to_bytes(todo) ==
    CandidHeader
        \o LEBytes(todo.id, U64Bytes)
        \o Leb128(Len(todo.title)) \o todo.title
        \o <<IF todo.completed THEN 1 ELSE 0>>

RECURSIVE ReadLeb128(_, _)
\* The LEB128 number at bytes[pos..]: <<value, position after it>>, or <<>>
\* when the bytes end inside it.
ReadLeb128(bytes, pos) ==
    IF pos > Len(bytes) THEN <<>>
    ELSE IF bytes[pos] < 128 THEN <<bytes[pos], pos + 1>>
    ELSE LET rest == ReadLeb128(bytes, pos + 1)
         IN  IF rest = <<>> THEN <<>>
             ELSE <<(bytes[pos] - 128) + 128 * rest[1], rest[2]>>

\* Decode!(bytes, Todo): <<todo>> for Ok(todo), <<>> for Err.
Decode(bytes) ==
    LET h == Len(CandidHeader)
        idEnd == h + U64Bytes
    IN  IF Len(bytes) < idEnd \/ SubSeq(bytes, 1, h) # CandidHeader THEN <<>>
        ELSE LET n == ReadLeb128(bytes, idEnd + 1)
             IN  IF n = <<>> THEN <<>>
                 ELSE LET from == n[2]
                          to == n[2] + n[1] - 1
                      IN  IF Len(bytes) # to + 1 \/ bytes[to + 1] \notin {0, 1} THEN <<>>
                          ELSE <<Todo(FromLE(SubSeq(bytes, h + 1, idEnd)),
                                      SubSeq(bytes, from, to),
                                      bytes[to + 1] = 1)>>

\* Todo::from_bytes: Decode!(..).unwrap()
from_bytes(bytes) == Decode(bytes)[1]

\* Storable::BOUND = Bounded { max_size: MAX_VALUE_SIZE, is_fixed_size: false }:
\* the map accepts a value only if its encoding is at most max_size bytes
\* long, and panics on a longer one.
WithinBound(todo) == Len(to_bytes(todo)) <= MAX_VALUE_SIZE

-----------------------------------------------------------------------------
(* StableBTreeMap<u64, Todo>: a function from its keys to encoded values *)

EmptyMap == <<>>

MapLen(map) == Cardinality(DOMAIN map)

ContainsKey(map, id) == id \in DOMAIN map

\* Faulty variant of MapInsert: the value goes under the key after the number
\* of entries, as a push would put it
MapInsertAtEnd(map, id, todo) ==
    [k \in DOMAIN map \cup {MapLen(map) + 1} |->
        IF k = MapLen(map) + 1 THEN to_bytes(todo) ELSE map[k]]

\* map.insert(id, todo): inserts or replaces
MapInsert(map, id, todo) ==
    [k \in DOMAIN map \cup {id} |-> IF k = id THEN to_bytes(todo) ELSE map[k]]

\* map.get(&id): <<>> for None, <<todo>> for Some(todo)
MapGet(map, id) == IF id \in DOMAIN map THEN <<from_bytes(map[id])>> ELSE <<>>

\* Faulty variant of MapRemove: takes the first entry away, whatever the id
MapRemoveFirst(map, id) ==
    IF DOMAIN map = {} THEN map
    ELSE LET m == CHOOSE k \in DOMAIN map : \A j \in DOMAIN map : k <= j
         IN  [k \in DOMAIN map \ {m} |-> map[k]]

\* map.remove(&id)
MapRemove(map, id) == [k \in DOMAIN map \ {id} |-> map[k]]

RECURSIVE KeysAscending(_)
KeysAscending(keys) ==
    IF keys = {} THEN <<>>
    ELSE LET m == CHOOSE k \in keys : \A j \in keys : k <= j
         IN  <<m>> \o KeysAscending(keys \ {m})

\* map.iter(): the (key, value) pairs in ascending key order
MapIter(map) ==
    LET ks == KeysAscending(DOMAIN map)
    IN  [i \in 1..Len(ks) |-> <<ks[i], from_bytes(map[ks[i]])>>]

-----------------------------------------------------------------------------
(* usize: a word of UsizeBytes little-endian bytes *)

Usize(n) == LEBytes(n, UsizeBytes)

UsizeZero == Usize(0)

\* usize::MAX
UsizeMax == [i \in 1..UsizeBytes |-> 255]

\* 2^(bits - 1) + 1: one more than half the range
UsizeHalfPlusOne ==
    [i \in 1..UsizeBytes |-> IF i = 1 THEN 1 ELSE IF i = UsizeBytes THEN 128 ELSE 0]

\* min(value of w, cap), for a small cap (cap < 65536)
UsizeClamp(w, cap) ==
    IF \E i \in 3..UsizeBytes : w[i] # 0 THEN cap
    ELSE Min(w[1] + 256 * w[2], cap)

\* value of w > n, for a small n (n < 65536)
UsizeGreater(w, n) ==
    \/ \E i \in 3..UsizeBytes : w[i] # 0
    \/ w[1] + 256 * w[2] > n

\* w - 1: <<borrowed out of the word, the wrapped difference>>
UsizeSubOne(w) ==
    <<w = UsizeZero,
      [i \in 1..UsizeBytes |->
          IF \A j \in 1..(i - 1) : w[j] = 0 THEN (w[i] + 255) % 256 ELSE w[i]]>>

RECURSIVE MulColumnFrom(_, _, _, _)
\* The sum of a[j] * b[k + 1 - j] over j in i..min(k, UsizeBytes)
MulColumnFrom(a, b, k, i) ==
    IF i > k \/ i > UsizeBytes THEN 0
    ELSE a[i] * b[k + 1 - i] + MulColumnFrom(a, b, k, i + 1)

\* Column k of the schoolbook product of a and b: the sum of a[i] * b[j] over
\* i + j = k + 1
MulColumn(a, b, k) ==
    MulColumnFrom(a, b, k, IF k > UsizeBytes THEN k + 1 - UsizeBytes ELSE 1)

RECURSIVE MulDigits(_, _, _, _)
\* The digits of the full product from column k on, given the carry into
\* column k
MulDigits(a, b, k, carry) ==
    IF k > 2 * UsizeBytes THEN <<>>
    ELSE LET t == MulColumn(a, b, k) + carry
         IN  <<t % 256>> \o MulDigits(a, b, k + 1, t \div 256)

\* w < 2^15: the product of two such words is below 2^30
UsizeIsSmall(w) == w[2] < 128 /\ \A i \in 3..UsizeBytes : w[i] = 0

\* a * b: <<the product does not fit the word, the product modulo 2^bits>>.
\* Two small factors are multiplied as integers, any others byte by byte.
UsizeMul(a, b) ==
    IF UsizeIsSmall(a) /\ UsizeIsSmall(b)
    THEN <<FALSE, Usize((a[1] + 256 * a[2]) * (b[1] + 256 * b[2]))>>
    ELSE LET digits == MulDigits(a, b, 1, 0)
         IN  <<\E k \in (UsizeBytes + 1)..(2 * UsizeBytes) : digits[k] # 0,
               SubSeq(digits, 1, UsizeBytes)>>

-----------------------------------------------------------------------------
(* Pagination *)

\* iter.skip(n).take(m) on a sequence, n and m being usize words
SkipTake(seq, n, m) ==
    LET from == UsizeClamp(n, Len(seq))
        count == UsizeClamp(m, Len(seq) - from)
    IN  SubSeq(seq, from + 1, from + count)

\* Faulty variant of SkipCount: page numbers taken as 0-based, page_num * page_size
SkipCountZeroBased(page_num, page_size) == UsizeMul(page_num, page_size)

\* (page_num - 1) * page_size: <<an arithmetic overflow happened, the wrapped
\* result>>
SkipCount(page_num, page_size) ==
    LET d == UsizeSubOne(page_num)
        p == UsizeMul(d[2], page_size)
    IN  <<d[1] \/ p[1], p[2]>>

\* Paginate::get_page. With overflow checks compiled in, an overflow of
\* (page_num - 1) * page_size panics; without them the result wraps.
\* iter is self.iter(), the map's (id, Todo) pairs in ascending key order.
\* [panic |-> TRUE] or [panic |-> FALSE, page |-> the (id, Todo) pairs]
get_page(iter, page_num, page_size, checks) ==
    LET skip == SkipCount(page_num, page_size)
    IN  IF checks /\ skip[1] THEN [panic |-> TRUE, page |-> <<>>]
        ELSE [panic |-> FALSE, page |-> SkipTake(iter, skip[2], page_size)]

-----------------------------------------------------------------------------
(* Inputs *)

\* The longest title whose Todo still encodes within MAX_VALUE_SIZE
TitleRoom == MAX_VALUE_SIZE - Len(to_bytes(Todo(1, <<>>, FALSE)))

\* Titles tried: a short one, the longest that fits, the shortest that does not
ValidTitles == {Str(1, 97), Str(TitleRoom, 98)}

Titles == ValidTitles \cup {Str(TitleRoom + 1, 99)}

\* Option<String>, Option<bool>: <<>> for None, <<v>> for Some(v)
OptTitles == {<<>>} \cup {<<t>> : t \in Titles}

OptBools == {<<>>, <<TRUE>>, <<FALSE>>}

\* Ids tried by update_todo and delete_todo: every key the map can hold
Ids == 1..MaxTodos

\* (page_num, page_size) pairs tried by read_todos on a map of n entries:
\* the small ones, up to one page past the end, and some at the ends of the
\* usize range
PageArgs(n) ==
    ({Usize(k) : k \in 0..(n + 1)} \X {Usize(k) : k \in 0..n})
        \cup {<<UsizeHalfPlusOne, Usize(2)>>, <<UsizeMax, Usize(1)>>,
              <<Usize(2), UsizeMax>>, <<Usize(1), UsizeMax>>,
              <<UsizeZero, UsizeMax>>}

-----------------------------------------------------------------------------
(* Calls and what they give back *)

NoArgs ==
    [op |-> "none", id |-> 0, title |-> <<>>, completed |-> <<>>,
     page_num |-> UsizeZero, page_size |-> UsizeZero]

\* A call that returned: kind "id" (create_todo's u64), "unit" (update_todo,
\* delete_todo), "none" / "some" (read_todos' Option<Vec<Todo>>).
Returned(kind, id, todos) == [kind |-> kind, id |-> id, todos |-> todos]

\* A call that panicked: the canister traps, the caller gets no value and the
\* state stays as it was before the call.
Panicked == [kind |-> "panic", id |-> 0, todos |-> <<>>]

-----------------------------------------------------------------------------
(* The code of the four entry points, as functions of the map *)

\* Faulty variant of NewId: the id is the count itself
NewIdIsLen(map) == MapLen(map)

\* Faulty variant of NewId: the id follows the greatest key of the map
NewIdAfterLastKey(map) ==
    IF DOMAIN map = {} THEN 1
    ELSE (CHOOSE k \in DOMAIN map : \A j \in DOMAIN map : j <= k) + 1

\* create_todo: let id = map.len() as u64 + 1
NewId(map) == MapLen(map) + 1

\* Faulty variant of NewTodo: the new Todo starts as completed
NewTodoDone(id, title) == Todo(id, title, TRUE)

\* create_todo: the Todo it inserts
NewTodo(id, title) == Todo(id, title, FALSE)

\* Faulty variant of ApplyUpdate: a completed of None resets the flag
ApplyUpdateResetsCompleted(todo, title, completed) ==
    Todo(todo.id,
         IF title # <<>> THEN title[1] ELSE todo.title,
         IF completed # <<>> THEN completed[1] ELSE FALSE)

\* Faulty variant of ApplyUpdate: the updated Todo gets the next id
ApplyUpdateRenumbers(todo, title, completed) ==
    Todo(todo.id + 1,
         IF title # <<>> THEN title[1] ELSE todo.title,
         IF completed # <<>> THEN completed[1] ELSE todo.completed)

\* update_todo: the Some fields overwrite, the None fields stay
ApplyUpdate(todo, title, completed) ==
    Todo(todo.id,
         IF title # <<>> THEN title[1] ELSE todo.title,
         IF completed # <<>> THEN completed[1] ELSE todo.completed)

\* Faulty variant of PageResult: an empty page is returned as Some of an empty list
PageResultAlwaysSome(page) ==
    Returned("some", 0, [i \in 1..Len(page) |-> page[i][2]])

\* read_todos: None for an empty page, else Some of the page's Todos
PageResult(page) ==
    IF page = <<>> THEN Returned("none", 0, <<>>)
    ELSE Returned("some", 0, [i \in 1..Len(page) |-> page[i][2]])

-----------------------------------------------------------------------------
(* State machine *)

\* The ids create_todo has returned by the time a call starts: those returned
\* before the call before it, and the keys of the map, since every id was a
\* key when the create_todo call that returned it ended.
AssignedSoFar == assigned \cup DOMAIN TODOS

Init ==
    /\ TODOS = EmptyMap
    /\ pre = EmptyMap
    /\ call = NoArgs
    /\ ret = Returned("init", 0, <<>>)
    /\ created = 0
    /\ deleted = FALSE
    /\ assigned = {}
    /\ overflow_checks \in BOOLEAN

create_todo ==
    \E title \in Titles :
        /\ MapLen(TODOS) < MaxTodos
        /\ pre' = TODOS
        /\ assigned' = AssignedSoFar
        /\ call' = [NoArgs EXCEPT !.op = "create", !.title = <<title>>]
        /\ LET id == NewId(TODOS)
               todo == NewTodo(id, title)
           IN  IF WithinBound(todo)
               THEN /\ TODOS' = MapInsert(TODOS, id, todo)
                    /\ ret' = Returned("id", id, <<>>)
                    /\ created' = IF deleted THEN 0 ELSE created + 1
               ELSE /\ ret' = Panicked
                    /\ UNCHANGED <<TODOS, created>>
        /\ UNCHANGED <<deleted, overflow_checks>>

\* Faulty variant of read_todos: the entries of the page returned are taken
\* out of the map
read_todos_draining ==
    LET iter == MapIter(TODOS)
    IN  \E <<page_num, page_size>> \in PageArgs(Len(iter)) :
            /\ pre' = TODOS
            /\ assigned' = AssignedSoFar
            /\ call' = [NoArgs EXCEPT !.op = "read", !.page_num = page_num,
                                      !.page_size = page_size]
            /\ LET got == get_page(iter, page_num, page_size, overflow_checks)
                   keys == {got.page[i][1] : i \in 1..Len(got.page)}
               IN  /\ ret' = IF got.panic THEN Panicked ELSE PageResult(got.page)
                   /\ TODOS' = [k \in DOMAIN TODOS \ keys |-> TODOS[k]]
            /\ UNCHANGED <<created, deleted, overflow_checks>>

read_todos ==
    LET iter == MapIter(TODOS)
    IN  \E <<page_num, page_size>> \in PageArgs(Len(iter)) :
            /\ pre' = TODOS
            /\ assigned' = AssignedSoFar
            /\ call' = [NoArgs EXCEPT !.op = "read", !.page_num = page_num,
                                      !.page_size = page_size]
            /\ LET got == get_page(iter, page_num, page_size, overflow_checks)
               IN  ret' = IF got.panic THEN Panicked ELSE PageResult(got.page)
            /\ UNCHANGED <<TODOS, created, deleted, overflow_checks>>

update_todo ==
    \E id \in Ids, title \in OptTitles, completed \in OptBools :
        /\ pre' = TODOS
        /\ assigned' = AssignedSoFar
        /\ call' = [NoArgs EXCEPT !.op = "update", !.id = id, !.title = title,
                                  !.completed = completed]
        /\ LET found == MapGet(TODOS, id)
           IN  IF found = <<>>
               THEN \* todos_mut.get(&id).unwrap() on None
                    /\ ret' = Panicked
                    /\ UNCHANGED TODOS
               ELSE LET upd == ApplyUpdate(found[1], title, completed)
                    IN  IF WithinBound(upd)
                        THEN /\ TODOS' = MapInsert(TODOS, id, upd)
                             /\ ret' = Returned("unit", 0, <<>>)
                        ELSE /\ ret' = Panicked
                             /\ UNCHANGED TODOS
        /\ UNCHANGED <<created, deleted, overflow_checks>>

delete_todo ==
    \E id \in Ids :
        /\ pre' = TODOS
        /\ assigned' = AssignedSoFar
        /\ call' = [NoArgs EXCEPT !.op = "delete", !.id = id]
        /\ TODOS' = MapRemove(TODOS, id)
        /\ ret' = Returned("unit", 0, <<>>)
        /\ deleted' = TRUE
        /\ created' = 0
        /\ UNCHANGED overflow_checks

Next ==
    \/ create_todo
    \/ read_todos
    \/ update_todo
    \/ delete_todo

Spec == Init /\ [][Next]_vars

-----------------------------------------------------------------------------
(* Pagination over the maps the program can hold.  Every set K of keys in   *)
(* 1..n is the key set of a reachable map (n calls of create_todo, then      *)
(* delete_todo of the keys not in K), holding under each key k a Todo with   *)
(* id k and any title and completed flag (update_todo).  SpecPage starts in  *)
(* any such map (with one title), after MaxKeys create_todo calls and some   *)
(* delete_todo call, and reads pages from it.                                *)

Maps(keys) ==
    {[k \in keys |-> to_bytes(Todo(k, f[k].title, f[k].completed))] :
        f \in [keys -> [title : {Str(1, 97)}, completed : BOOLEAN]]}

InitPage ==
    /\ TODOS \in UNION {Maps(keys) : keys \in SUBSET (1..MaxKeys)}
    /\ pre = TODOS
    /\ call = NoArgs
    /\ ret = Returned("init", 0, <<>>)
    /\ created = 0
    /\ deleted = TRUE
    /\ assigned = 1..MaxKeys
    /\ overflow_checks \in BOOLEAN

NextPage == read_todos

SpecPage == InitPage /\ [][NextPage]_vars

-----------------------------------------------------------------------------
(* The Storable encoding on its own: a Todo that fits the bound is encoded   *)
(* as the map encodes a value it is given (to_bytes), and the bytes are      *)
(* decoded as the map decodes a value it hands out (from_bytes).             *)

\* ids: the ends of the one-, two- and three-byte ranges, and the largest
\* number the model checker holds
RoundTripIds == {0, 1, 255, 256, 65536, 2147483647}

\* titles: empty, one ASCII letter, a NUL, a two-byte UTF-8 letter, and the
\* valid titles of the state machine (the longest that fits among them)
RoundTripTitles == {<<>>, <<0>>, <<195, 169>>} \cup Titles

InitCodec ==
    /\ TODOS = EmptyMap
    /\ pre = EmptyMap
    /\ call = NoArgs
    /\ ret = Returned("init", 0, <<>>)
    /\ created = 0
    /\ deleted = FALSE
    /\ assigned = {}
    /\ overflow_checks \in BOOLEAN

\* to_bytes of a Todo within the bound; the bytes are kept under the Todo's id
to_bytes_call ==
    \E id \in RoundTripIds, title \in RoundTripTitles, completed \in BOOLEAN :
        /\ WithinBound(Todo(id, title, completed))
        /\ TODOS' = [k \in {id} |-> to_bytes(Todo(id, title, completed))]
        /\ call' = [NoArgs EXCEPT !.op = "to_bytes", !.id = id,
                                  !.title = <<title>>,
                                  !.completed = <<completed>>]
        /\ ret' = Returned("bytes", 0, <<>>)
        /\ UNCHANGED <<pre, created, deleted, assigned, overflow_checks>>

\* from_bytes of the bytes the last to_bytes gave
from_bytes_call ==
    /\ call.op = "to_bytes"
    /\ call' = [call EXCEPT !.op = "from_bytes"]
    /\ ret' = Returned("todo", 0, <<from_bytes(TODOS[call.id])>>)
    /\ UNCHANGED <<TODOS, pre, created, deleted, assigned, overflow_checks>>

NextCodec == to_bytes_call \/ from_bytes_call

SpecCodec == InitCodec /\ [][NextCodec]_vars

-----------------------------------------------------------------------------
(* Properties *)

\* What the last call saw and left under the id it was given
OldTodo == MapGet(pre, call.id)[1]
NewTodoStored == MapGet(TODOS, call.id)[1]

\* C1: with no delete_todo call so far, the k-th create_todo call that returns
\* gives id k, and the map then holds under key k a Todo with id k, the title
\* passed to the call and completed = false.
C1_CreateSequence ==
    (call.op = "create" /\ ret.kind = "id" /\ ~deleted) =>
        /\ ret.id = created
        /\ MapGet(TODOS, created) = <<Todo(created, call.title[1], FALSE)>>
        /\ MapLen(TODOS) = created

\* C1 witness: the last of MaxTodos creates in a row has returned.
C1_Witness ==
    /\ call.op = "create" /\ ret.kind = "id" /\ ~deleted
    /\ created = MaxTodos
    /\ DOMAIN TODOS = 1..MaxTodos

\* C2 (as claimed): every create_todo that returns inserted a new record: its
\* id was not a key before, the map grew by one and every record held before
\* is still there unchanged.
C2_CreateInsertsNew ==
    (call.op = "create" /\ ret.kind = "id") =>
        /\ ~ContainsKey(pre, ret.id)
        /\ MapLen(TODOS) = MapLen(pre) + 1
        /\ \A k \in DOMAIN pre : MapGet(TODOS, k) = MapGet(pre, k)

\* C3 (as claimed): update_todo on an id that is not a key returns a NotFound
\* error value and leaves the map as it was.
C3_UpdateMissingIsNotFound ==
    (call.op = "update" /\ ~ContainsKey(pre, call.id)) =>
        /\ ret.kind = "not_found"
        /\ TODOS = pre

\* C4: an update_todo that returns has changed exactly the fields given as
\* Some: title alone, completed alone, both, or (both None) nothing.
C4_UpdatePartial ==
    (call.op = "update" /\ ret.kind = "unit") =>
        /\ ContainsKey(pre, call.id)
        /\ DOMAIN TODOS = DOMAIN pre
        /\ NewTodoStored.id = OldTodo.id
        /\ (call.title # <<>> /\ call.completed = <<>>) =>
              /\ NewTodoStored.title = call.title[1]
              /\ NewTodoStored.completed = OldTodo.completed
        /\ (call.title = <<>> /\ call.completed # <<>>) =>
              /\ NewTodoStored.title = OldTodo.title
              /\ NewTodoStored.completed = call.completed[1]
        /\ (call.title # <<>> /\ call.completed # <<>>) =>
              /\ NewTodoStored.title = call.title[1]
              /\ NewTodoStored.completed = call.completed[1]
        /\ (call.title = <<>> /\ call.completed = <<>>) => TODOS = pre

\* C4 witness: a title-only update of a completed Todo has changed its title.
C4_Witness ==
    /\ call.op = "update" /\ ret.kind = "unit"
    /\ call.title # <<>> /\ call.completed = <<>>
    /\ OldTodo.completed
    /\ OldTodo.title # call.title[1]
    /\ NewTodoStored.title = call.title[1]

\* C5: delete_todo never fails; on an id that is not a key it leaves the map
\* as it was; on a key it takes exactly that entry away (size down by one, a
\* lookup of the id finds nothing); deleting the same id again changes nothing.
C5_DeleteIdempotent ==
    (call.op = "delete") =>
        /\ ret.kind = "unit"
        /\ ~ContainsKey(pre, call.id) => TODOS = pre
        /\ ContainsKey(pre, call.id) =>
              /\ MapLen(TODOS) = MapLen(pre) - 1
              /\ MapGet(TODOS, call.id) = <<>>
        /\ MapRemove(TODOS, call.id) = TODOS

\* C5 witness: one of two live Todos has been deleted.
C5_Witness ==
    /\ call.op = "delete"
    /\ ContainsKey(pre, call.id)
    /\ MapLen(pre) = MaxTodos
    /\ MapLen(TODOS) = MaxTodos - 1

\* ceil(S / P) for a map of S entries and a page size word P > 0; a P above S
\* counts as S (one page)
PageCount(S, P) ==
    IF S = 0 THEN 0
    ELSE LET p == UsizeClamp(P, S) IN (S + p - 1) \div p

RECURSIVE PagesConcat(_, _, _, _)
\* get_page(1, P) \o ... \o get_page(n, P)
PagesConcat(iter, P, n, checks) ==
    IF n = 0 THEN <<>>
    ELSE PagesConcat(iter, P, n - 1, checks)
            \o get_page(iter, Usize(n), Usize(P), checks).page

\* C6: for the map held (S entries, gaps in the keys or not) and every page
\* size P > 0, the pages 1..ceil(S/P) are all computed, and one after the
\* other they are every stored (id, Todo) pair exactly once, in ascending id
\* order.
C6_PagesCoverMap ==
    LET iter == MapIter(TODOS)
        S == MapLen(TODOS)
    IN  \A P \in 1..(MaxKeys + 1) :
            LET all == PagesConcat(iter, P, PageCount(S, Usize(P)), overflow_checks)
            IN  /\ \A n \in 1..PageCount(S, Usize(P)) :
                      ~get_page(iter, Usize(n), Usize(P), overflow_checks).panic
                /\ Len(all) = S
                /\ \A i \in 1..Len(all) :
                      /\ ContainsKey(TODOS, all[i][1])
                      /\ <<all[i][2]>> = MapGet(TODOS, all[i][1])
                /\ \A i \in 1..(Len(all) - 1) : all[i][1] < all[i + 1][1]

\* C6 witness: the second page (of size 1) of a map with a gap in its keys
\* has been read.
C6_Witness ==
    /\ call.op = "read" /\ ret.kind = "some"
    /\ call.page_num = Usize(2) /\ call.page_size = Usize(1)
    /\ MapLen(TODOS) >= 2
    /\ ~ContainsKey(TODOS, 1)
    /\ ret.todos[1].id = MaxKeys

\* C7 (as claimed): read_todos of any page_num above ceil(S/P), with P > 0,
\* returns None (the page is empty).
C7_PastEndIsNone ==
    (/\ call.op = "read"
     /\ call.page_size # UsizeZero
     /\ UsizeGreater(call.page_num, PageCount(MapLen(pre), call.page_size))) =>
        ret.kind = "none"

\* C8: a read_todos that returns gives None exactly when the page get_page
\* computes is empty (as it is for an empty map and for page_size 0), and
\* otherwise Some of the page's Todos, as many as the page has, in ascending
\* id order.
C8_ReadResult ==
    (call.op = "read" /\ ret.kind # "panic") =>
        LET got == get_page(MapIter(pre), call.page_num, call.page_size,
                            overflow_checks)
        IN  /\ ~got.panic
            /\ ret.kind \in {"none", "some"}
            /\ ret.kind = "none" <=> got.page = <<>>
            /\ (MapLen(pre) = 0 \/ call.page_size = UsizeZero) => ret.kind = "none"
            /\ ret.kind = "some" =>
                  /\ Len(ret.todos) = Len(got.page)
                  /\ Len(ret.todos) > 0
                  /\ \A i \in 1..Len(ret.todos) :
                        <<ret.todos[i]>> = MapGet(pre, got.page[i][1])
                  /\ \A i \in 1..(Len(ret.todos) - 1) :
                        ret.todos[i].id < ret.todos[i + 1].id

\* C8 witness: a page of two Todos has been returned from a map with a gap in
\* its keys.
C8_Witness ==
    /\ call.op = "read" /\ ret.kind = "some"
    /\ Len(ret.todos) = 2
    /\ ret.todos[2].id > ret.todos[1].id + 1

\* C9 (as claimed): read_todos with page_num = 0 returns an InvalidArgument
\* error.
C9_PageZeroIsInvalidArgument ==
    (call.op = "read" /\ call.page_num = UsizeZero) =>
        ret.kind = "invalid_argument"

\* C10 (as claimed): create_todo or update_todo with a title too long for the
\* encoded Todo to fit MAX_VALUE_SIZE returns an EncodingError and leaves the
\* map as it was.
C10_OversizeIsEncodingError ==
    (/\ call.op \in {"create", "update"}
     /\ call.title # <<>>
     /\ Len(call.title[1]) > TitleRoom
     /\ call.op = "update" => ContainsKey(pre, call.id)) =>
        /\ ret.kind = "encoding_error"
        /\ TODOS = pre

\* The ids that were returned by create_todo before the last call and whose
\* record was no longer in the map when the last call started.
RetiredIds == assigned \ DOMAIN pre

\* C11: create_todo takes the id from the live count, so once fewer records are
\* live than ids were handed out, a create_todo call that returns never gives
\* a fresh id: it gives one that an earlier create_todo call already returned.
\* The sequence the claim speaks of, where that id belonged to a record deleted
\* since, is the state of C11_Witness.
C11_NoFreshIdAfterDelete ==
    (/\ call.op = "create" /\ ret.kind = "id"
     /\ MapLen(pre) < Cardinality(assigned)) =>
        /\ ret.id \in assigned
        /\ MapGet(TODOS, ret.id) = <<Todo(ret.id, call.title[1], FALSE)>>

\* C11 witness: create_todo has returned an id that an earlier create_todo call
\* returned and whose record had been deleted since; the id now names the new
\* Todo.
C11_Witness ==
    /\ call.op = "create" /\ ret.kind = "id"
    /\ ret.id \in RetiredIds
    /\ MapGet(TODOS, ret.id) = <<Todo(ret.id, call.title[1], FALSE)>>

\* C12: in every reachable state the map iterates over as many records as its
\* size, with strictly ascending (so distinct) keys, and the Todo decoded from
\* each entry has its key as id; an update_todo call that returns leaves the
\* keys of the map as they were and the id of the updated Todo equal to the id
\* it was called with.
C12_StoreInvariants ==
    LET iter == MapIter(TODOS)
    IN  /\ Len(iter) = MapLen(TODOS)
        /\ \A i \in 1..(Len(iter) - 1) : iter[i][1] < iter[i + 1][1]
        /\ \A i \in 1..Len(iter) : iter[i][2].id = iter[i][1]
        /\ \A k \in DOMAIN TODOS : MapGet(TODOS, k)[1].id = k
        /\ (call.op = "update" /\ ret.kind = "unit") =>
               /\ DOMAIN TODOS = DOMAIN pre
               /\ OldTodo.id = call.id
               /\ NewTodoStored.id = call.id

\* C12 witness: update_todo has returned after changing both fields of one of
\* two stored Todos.
C12_Witness ==
    /\ call.op = "update" /\ ret.kind = "unit"
    /\ MapLen(TODOS) = 2
    /\ NewTodoStored.title # OldTodo.title
    /\ NewTodoStored.completed # OldTodo.completed

\* C13: for every Todo whose encoding fits the bound (the ids, titles and
\* flags of RoundTripIds, RoundTripTitles and BOOLEAN), from_bytes of its
\* to_bytes is a Todo equal to it in id, title and completed.
C13_RoundTrip ==
    (call.op = "from_bytes") =>
        /\ ret.todos[1].id = call.id
        /\ ret.todos[1].title = call.title[1]
        /\ ret.todos[1].completed = call.completed[1]
        /\ ret.todos = <<Todo(call.id, call.title[1], call.completed[1])>>

\* C13 witness: a completed Todo with an id of more than two bytes and the
\* longest title that fits has been encoded and decoded.
C13_Witness ==
    /\ call.op = "from_bytes"
    /\ call.id > 65535
    /\ Len(call.title[1]) = TitleRoom
    /\ call.completed = <<TRUE>>
    /\ Len(TODOS[call.id]) = MAX_VALUE_SIZE

\* The page as the claim defines it, for page_num >= 1: the elements from
\* skip + 1 to min(skip + page_size, S) of the S pairs, with
\* skip = (page_num - 1) * page_size as a product of numbers, not of machine
\* words.  Only min(skip, S) matters, and for page_size > 0 that is
\* min(min(page_num - 1, S) * min(page_size, S), S).
ExactPage(iter, page_num, page_size) ==
    LET S == Len(iter)
        skip == Min(UsizeClamp(UsizeSubOne(page_num)[2], S)
                        * UsizeClamp(page_size, S), S)
        last == Min(skip + UsizeClamp(page_size, S), S)
    IN  SubSeq(iter, skip + 1, last)

\* C14 (as claimed): for every page_num >= 1 and every page_size, read_todos
\* returns the page computed from the exact product (page_num - 1) * page_size:
\* the call does not panic, the multiplication does not wrap, the result is
\* None when the product is at least the size of the map or page_size is 0,
\* and otherwise Some of the elements skip + 1 .. min(skip + page_size, S).
C14_ExactSkip ==
    (call.op = "read" /\ call.page_num # UsizeZero) =>
        LET page == ExactPage(MapIter(pre), call.page_num, call.page_size)
        IN  /\ ret.kind # "panic"
            /\ ~SkipCount(call.page_num, call.page_size)[1]
            /\ ret = PageResult(page)

\* C15: a read_todos call leaves the map as it was (same keys, same encoded
\* records, same size), and a read_todos call that follows a read_todos call
\* with the same page_num and page_size, nothing else being called in between,
\* gives the same result as that call.
C15_ReadIsPure ==
    [][(call'.op = "read") =>
           /\ TODOS' = TODOS
           /\ pre' = TODOS
           /\ MapLen(TODOS') = MapLen(TODOS)
           /\ (call.op = "read" /\ call' = call) => ret' = ret]_vars

\* C15 witness: a full page of two Todos has been read from a map of
\* MaxKeys records, and the map is as it was before the call.
C15_Witness ==
    /\ call.op = "read" /\ ret.kind = "some"
    /\ call.page_num = Usize(1) /\ call.page_size = Usize(2)
    /\ MapLen(pre) = MaxKeys
    /\ TODOS = pre
    /\ ret = PageResult(get_page(MapIter(TODOS), call.page_num, call.page_size,
                                 overflow_checks).page)

\* C16: update_todo on an id that is a key leaves the size and the keys of the
\* map as they were and every record under another key unchanged; delete_todo
\* adds no key and leaves every record under another key than the one it was
\* given unchanged.
C16_OtherRecordsKept ==
    /\ (call.op = "update" /\ ContainsKey(pre, call.id)) =>
           /\ MapLen(TODOS) = MapLen(pre)
           /\ DOMAIN TODOS = DOMAIN pre
           /\ \A k \in DOMAIN pre \ {call.id} :
                  /\ TODOS[k] = pre[k]
                  /\ MapGet(TODOS, k) = MapGet(pre, k)
    /\ (call.op = "delete") =>
           /\ DOMAIN TODOS \subseteq DOMAIN pre
           /\ \A k \in DOMAIN pre \ {call.id} :
                  /\ ContainsKey(TODOS, k)
                  /\ TODOS[k] = pre[k]
                  /\ MapGet(TODOS, k) = MapGet(pre, k)

\* C16 witness: update_todo has changed the first of MaxTodos records and the
\* last one is as it was.
C16_Witness ==
    /\ call.op = "update" /\ ret.kind = "unit"
    /\ call.id = 1
    /\ MapLen(pre) = MaxTodos
    /\ TODOS[1] # pre[1]
    /\ TODOS[MaxTodos] = pre[MaxTodos]

\* C17: in every reachable state, after deletions too, a create_todo call
\* that returns gives the size of the map before the call plus one, never 0,
\* and a lookup of that id right after the call finds a Todo with that id,
\* the title passed to the call and completed = false.
C17_CreateReturnsSizePlusOne ==
    (call.op = "create" /\ ret.kind = "id") =>
        /\ ret.id = MapLen(pre) + 1
        /\ ret.id # 0
        /\ MapGet(TODOS, ret.id) # <<>>
        /\ MapGet(TODOS, ret.id)[1].id = ret.id
        /\ MapGet(TODOS, ret.id)[1].title = call.title[1]
        /\ MapGet(TODOS, ret.id)[1].completed = FALSE

\* C17 witness: after a delete_todo call, create_todo has returned the size
\* plus one of a map that held another Todo under that very id.
C17_Witness ==
    /\ call.op = "create" /\ ret.kind = "id"
    /\ deleted
    /\ MapLen(pre) = 1
    /\ ret.id = 2
    /\ ContainsKey(pre, 2)
    /\ MapGet(TODOS, 2) = <<Todo(2, call.title[1], FALSE)>>

====
